---- MODULE Spec2Model ----
(***************************************************************************)
(* Model of src/main.py: a FastAPI service over three SQLite tables        *)
(* (users, companies, packages) plus three stateless endpoints (fuel,      *)
(* get_route, fetch_weather_alerts).                                       *)
(*                                                                         *)
(* Store handlers run in worker threads; each worker's handler is split at *)
(* the points where it touches the database (SELECT, session add, commit). *)
(* The database is SQLite: unique indexes are enforced when the INSERT is  *)
(* flushed at commit, INTEGER PRIMARY KEY is max(rowid)+1, and a           *)
(* transaction that has written holds the single write lock until commit.  *)
(***************************************************************************)
EXTENDS Integers, Sequences, FiniteSets, TLC

(* ---------------------------- bounds ----------------------------------- *)
NumProcs == 2
MaxRequests == 2
MaxAccountRequests == 2
MaxPkgRequests == 4
MaxPkgId == 3
HistoryLen == 4

Procs == 1..NumProcs
PkgIds == 1..MaxPkgId

\* Sample request data; the handlers only ever compare these for equality.
Usernames == {"alice", "bob"}
Emails == {"a@x.io", "b@x.io"}
Passwords == {"pw1", "pw2"}
Salts == {"s1", "s2"}
CompanyNames == {"acme", "bolt"}
PkgNames == {"crate"}

VARIABLES users, companies, packages, writer, req, registered, budget, history,
          fuel, apiKey, route, weather

storeVars == <<users, companies, packages, writer>>
extVars == <<fuel, apiKey, route, weather>>
vars == <<users, companies, packages, writer, req, registered, budget, history,
          fuel, apiKey, route, weather>>

(* ---------------------------- helpers ---------------------------------- *)
Max(S) == CHOOSE x \in S : \A y \in S : y <= x

\* SQLite INTEGER PRIMARY KEY without AUTOINCREMENT: one more than the
\* largest rowid currently in the table, 1 for an empty table.
NextRowId(rows) == IF rows = {} THEN 1 ELSE Max({r.id : r \in rows}) + 1

\* pwd_context.hash: bcrypt draws a salt and stores it next to the digest.
Hash(pw, salt) == [scheme |-> "bcrypt", salt |-> salt, digest |-> <<salt, pw>>]

\* verify that hashes the candidate with a fixed salt, not the stored one
Verify_FixedSalt(pw, h) == Hash(pw, "s1").digest = h.digest

\* pwd_context.verify: re-hash the candidate with the stored salt, compare.
Verify(pw, h) == Hash(pw, h.salt).digest = h.digest

Idle == [pc |-> "idle", op |-> "none", arg |-> <<>>, loc |-> <<>>,
         status |-> 0, detail |-> "", body |-> <<>>]

Done(r, st, det, body) ==
    [r EXCEPT !.pc = "done", !.status = st, !.detail = det, !.body = body]

\* A worker accepts a new request while the request budget lasts.
Accept(p) == /\ req[p].pc = "idle"
             /\ budget > 0
             /\ budget' = budget - 1

\* Statements that write wait for the database write lock.
LockFree(p) == writer \in {0, p}

\* The last HistoryLen completed package operations, in the order in which
\* the database executed them.
Record(h, e) == IF Len(h) < HistoryLen THEN Append(h, e)
                ELSE Append(Tail(h), e)

(* ---------------------------- create_user ------------------------------ *)
\* an existence check that forgets the email
UserConflict_UsernameOnly(rows, u, e) == \E r \in rows : r.username = u

UserConflict(rows, u, e) == \E r \in rows : r.username = u \/ r.email = e

CreateUserCheck(p, u, e, pw) ==
    /\ Accept(p)
    /\ LET r == [Idle EXCEPT !.op = "create_user", !.arg = <<u, e, pw>>]
       IN  req' = [req EXCEPT ![p] =
                IF UserConflict(users, u, e)
                THEN Done(r, 400, "Username or email already registered", <<>>)
                ELSE [r EXCEPT !.pc = "checked"]]
    /\ UNCHANGED <<storeVars, registered, history, extVars>>

CreateUserAdd(p, salt) ==
    /\ req[p].pc = "checked" /\ req[p].op = "create_user"
    /\ req' = [req EXCEPT ![p].pc = "added",
                          ![p].loc = <<Hash(req[p].arg[3], salt)>>]
    /\ UNCHANGED <<storeVars, registered, budget, history, extVars>>

\* a users table whose email column lost its unique index
UserInsertOk_UsernameOnly(rows, u, e) == ~ \E r \in rows : r.username = u

\* unique=True on username and on email: the INSERT is refused (IntegrityError)
\* when either value is already in the table.
UserInsertOk(rows, u, e) ==
    /\ ~ \E r \in rows : r.username = u
    /\ ~ \E r \in rows : r.email = e

\* INSERT INTO users: the store assigns the id, is_active defaults to True.
InsertUser(rows, u, e, h) ==
    rows \cup {[id |-> NextRowId(rows), username |-> u, email |-> e,
                password |-> h, is_active |-> TRUE]}

CreateUserCommit(p) ==
    /\ req[p].pc = "added" /\ req[p].op = "create_user"
    /\ LockFree(p)
    /\ LET u == req[p].arg[1]
           e == req[p].arg[2]
           id == NextRowId(users)
       IN  IF UserInsertOk(users, u, e)
           THEN /\ users' = InsertUser(users, u, e, req[p].loc[1])
                /\ req' = [req EXCEPT ![p] = Done(req[p], 200, "", <<id, u, e>>)]
                /\ registered' = registered \cup {<<u, req[p].arg[3], id>>}
           ELSE /\ req' = [req EXCEPT ![p] =
                              Done(req[p], 500, "Internal Server Error", <<>>)]
                /\ UNCHANGED <<users, registered>>
    /\ UNCHANGED <<companies, packages, writer, budget, history, extVars>>

(* ---------------------------- login ------------------------------------ *)
\* a login that tells a missing user from a wrong password
LoginResponse_NotFound(rows, u, pw) ==
    LET hits == {r \in rows : r.username = u}
        first == CHOOSE r \in hits : \A x \in hits : r.id <= x.id
    IN  IF hits = {}
        THEN [status |-> 404, detail |-> "User not found", body |-> <<>>]
        ELSE IF ~ Verify(pw, first.password)
        THEN [status |-> 401, detail |-> "Invalid username or password",
              body |-> <<>>]
        ELSE [status |-> 200, detail |-> "",
              body |-> <<"Login successful", first.id>>]

LoginResponse(rows, u, pw) ==
    LET hits == {r \in rows : r.username = u}
        first == CHOOSE r \in hits : \A x \in hits : r.id <= x.id
    IN  IF hits = {} \/ ~ Verify(pw, first.password)
        THEN [status |-> 401, detail |-> "Invalid username or password",
              body |-> <<>>]
        ELSE [status |-> 200, detail |-> "",
              body |-> <<"Login successful", first.id>>]

\* loc remembers whether the username existed when the query ran, and
\* whether these credentials had been registered.
Login(p, u, pw) ==
    /\ Accept(p)
    /\ LET r == [Idle EXCEPT !.op = "login", !.arg = <<u, pw>>,
                             !.loc = <<\E x \in users : x.username = u,
                                       \E c \in registered :
                                           c[1] = u /\ c[2] = pw>>]
           a == LoginResponse(users, u, pw)
       IN  req' = [req EXCEPT ![p] = Done(r, a.status, a.detail, a.body)]
    /\ UNCHANGED <<storeVars, registered, history, extVars>>

(* ---------------------------- create_company --------------------------- *)
CompanyConflict(rows, n, e) == \E r \in rows : r.name = n \/ r.email = e

CreateCompanyCheck(p, n, e) ==
    /\ Accept(p)
    /\ LET r == [Idle EXCEPT !.op = "create_company", !.arg = <<n, e>>]
       IN  req' = [req EXCEPT ![p] =
                IF CompanyConflict(companies, n, e)
                THEN Done(r, 400, "Company name or email already registered", <<>>)
                ELSE [r EXCEPT !.pc = "checked"]]
    /\ UNCHANGED <<storeVars, registered, history, extVars>>

CreateCompanyAdd(p) ==
    /\ req[p].pc = "checked" /\ req[p].op = "create_company"
    /\ req' = [req EXCEPT ![p].pc = "added"]
    /\ UNCHANGED <<storeVars, registered, budget, history, extVars>>

CompanyInsertOk(rows, n, e) ==
    /\ ~ \E r \in rows : r.name = n
    /\ ~ \E r \in rows : r.email = e

CreateCompanyCommit(p) ==
    /\ req[p].pc = "added" /\ req[p].op = "create_company"
    /\ LockFree(p)
    /\ LET n == req[p].arg[1]
           e == req[p].arg[2]
           id == NextRowId(companies)
       IN  IF CompanyInsertOk(companies, n, e)
           THEN /\ companies' = companies \cup
                        {[id |-> id, name |-> n, email |-> e,
                          number |-> 0, address |-> "addr"]}
                /\ req' = [req EXCEPT ![p] =
                              Done(req[p], 200, "", <<id, n, e, 0, "addr">>)]
           ELSE /\ req' = [req EXCEPT ![p] =
                              Done(req[p], 500, "Internal Server Error", <<>>)]
                /\ UNCHANGED companies
    /\ UNCHANGED <<users, packages, writer, registered, budget, history, extVars>>

(* ---------------------------- packages --------------------------------- *)
\* db.add() only marks the object in the session; the INSERT is flushed by
\* commit(), so the handler touches the database in one step.
AddPackage(p, name) ==
    /\ Accept(p)
    /\ LockFree(p)
    /\ NextRowId(packages) <= MaxPkgId
    /\ LET rec == [id |-> NextRowId(packages), package_name |-> name]
           r == [Idle EXCEPT !.op = "add_package", !.arg = <<name>>]
       IN  /\ packages' = packages \cup {rec}
           /\ req' = [req EXCEPT ![p] =
                         Done(r, 200, "", <<rec.id, rec.package_name>>)]
           /\ history' = Record(history,
                  [op |-> "add_package", id |-> rec.id, status |-> 200,
                   pre |-> packages, post |-> packages \cup {rec},
                   out |-> <<rec>>])
    /\ UNCHANGED <<users, companies, writer, registered, extVars>>

RECURSIVE RowsInOrder(_)
\* SELECT without ORDER BY walks the table b-tree in rowid order.
RowsInOrder(rows) ==
    IF rows = {} THEN <<>>
    ELSE LET r == CHOOSE x \in rows : \A y \in rows : x.id <= y.id
         IN  <<r>> \o RowsInOrder(rows \ {r})

ListPackages(p) ==
    /\ Accept(p)
    /\ req' = [req EXCEPT ![p] =
                  Done([Idle EXCEPT !.op = "list_packages"], 200, "",
                       RowsInOrder(packages))]
    /\ history' = Record(history,
           [op |-> "list_packages", id |-> 0, status |-> 200,
            pre |-> packages, post |-> packages,
            out |-> RowsInOrder(packages)])
    /\ UNCHANGED <<storeVars, registered, extVars>>

\* a DELETE whose filter is <= instead of ==
DeleteMatches_UpTo(rows, id) == {r \in rows : r.id <= id}

\* Query.delete(): the DELETE statement and its matched-row count.
DeleteMatches(rows, id) == {r \in rows : r.id = id}

\* an answer that ignores the row count
RemoveStatus_Always200(deleted) == 200

\* remove_package's answer from the row count of the DELETE.
RemoveStatus(deleted) == IF deleted # 0 THEN 200 ELSE 404

\* The DELETE runs at once inside a new transaction, which holds the write
\* lock; the rows are gone for everyone else at commit.
RemovePackageDelete(p, id) ==
    /\ Accept(p)
    /\ LockFree(p)
    /\ writer' = p
    /\ req' = [req EXCEPT ![p] =
                  [Idle EXCEPT !.pc = "deleted", !.op = "remove_package",
                       !.arg = <<id>>,
                       !.loc = <<Cardinality(DeleteMatches(packages, id))>>]]
    /\ UNCHANGED <<users, companies, packages, registered, history, extVars>>

RemovePackageCommit(p) ==
    /\ req[p].pc = "deleted" /\ req[p].op = "remove_package"
    /\ writer = p
    /\ writer' = 0
    /\ packages' = packages \ DeleteMatches(packages, req[p].arg[1])
    /\ LET st == RemoveStatus(req[p].loc[1])
       IN  /\ req' = [req EXCEPT ![p] =
                  Done(req[p], st,
                       IF st = 200 THEN "Package deleted" ELSE "Package not found",
                       <<>>)]
           /\ history' = Record(history,
                  [op |-> "remove_package", id |-> req[p].arg[1], status |-> st,
                   pre |-> packages,
                   post |-> packages \ DeleteMatches(packages, req[p].arg[1]),
                   out |-> <<>>])
    /\ UNCHANGED <<users, companies, registered, budget, extVars>>

\* The response is sent and the worker is free again.
Return(p) ==
    /\ req[p].pc = "done"
    /\ req' = [req EXCEPT ![p] = Idle]
    /\ UNCHANGED <<storeVars, registered, budget, history, extVars>>

(* ---------------------------- fuel ------------------------------------- *)
\* timedelta(hours=30)
RefuelHours == 30
\* the literal returned as hours_until_refuel
HoursUntilRefuel == 30
\* Timestamps are whole hours since 0001-01-01T00:00; datetime.max lies in
\* hour MaxHour (9999-12-31T23), and datetime + timedelta raises
\* OverflowError beyond it.
MaxHour == 87649415
TimeWindow == 36
\* 2026-03-08T07:00Z, the start of daylight saving time in New Jersey
DstStart == 24 * (739683 - 1) + 7
\* 2027-01-01T00:00
YearStart == 24 * (739982 - 1)
Timestamps == (0 .. TimeWindow)
              \cup ((DstStart - TimeWindow) .. (DstStart + TimeWindow))
              \cup ((YearStart - TimeWindow) .. (YearStart + TimeWindow))
              \cup ((MaxHour - TimeWindow) .. MaxHour)

NoFuel == [valid |-> TRUE, input |-> 0, status |-> 0, body |-> <<>>]

FuelResponse(t) ==
    IF t + RefuelHours > MaxHour
    THEN [status |-> 500, body |-> <<>>]
    ELSE [status |-> 200, body |-> <<t, t + RefuelHours, HoursUntilRefuel>>]

Fuel(t) ==
    /\ fuel' = [valid |-> TRUE, input |-> t,
                status |-> FuelResponse(t).status, body |-> FuelResponse(t).body]
    /\ UNCHANGED <<storeVars, req, registered, budget, history, apiKey, route, weather>>

\* A body whose current_time does not parse never reaches the handler.
FuelMalformed ==
    /\ fuel' = [valid |-> FALSE, input |-> 0, status |-> 422, body |-> <<>>]
    /\ UNCHANGED <<storeVars, req, registered, budget, history, apiKey, route, weather>>

(* ---------------------------- outbound HTTP ---------------------------- *)
MaxFeatures == 2
MaxAlerts == 2

None == "None"

\* dict.get(key, default)
Get(d, k, default) == IF k \in DOMAIN d THEN d[k] ELSE default

\* Response.raise_for_status(): HTTPError for 4xx and 5xx, nothing otherwise.
RaiseForStatus(status) == 400 <= status /\ status < 600

\* Final statuses of a response: success, a 3xx that requests does not follow
\* (300, or a redirect without Location), and errors.
OkStatuses == {200, 300}
ErrorStatuses == {404, 500}
NoData == [none |-> TRUE]
TransportFailures ==
    {[transport |-> t, status |-> 0, json |-> FALSE, data |-> NoData] :
        t \in {"timeout", "connection_error"}}

\* Replies that carry no feed: a failed transport, or a body that is not
\* JSON or is never read (error statuses).
BareReplies ==
    TransportFailures
    \cup {[transport |-> "ok", status |-> s, json |-> FALSE, data |-> NoData] :
             s \in OkStatuses \cup ErrorStatuses}

JsonReply(s, d) == [transport |-> "ok", status |-> s, json |-> TRUE, data |-> d]

SeqsUpTo(S, n) == UNION {[1..k -> S] : k \in 0..n}

(* ---------------------------- get_route -------------------------------- *)
Placeholder == "your_api_key_here"
\* GEOAPIFY_API_KEY: unset (the placeholder default), set empty, or set.
ApiKeys == {Placeholder, "", "k3y"}
Locations == {"A", "B"}

Candidates ==
    {[properties |-> [distance |-> "100", duration |-> "200", traffic |-> "heavy"]],
     [properties |-> [distance |-> "5"]],
     [geometry |-> "line"]}

RouteBodies ==
    {[features |-> f] : f \in SeqsUpTo(Candidates, MaxFeatures)}
    \cup {[type |-> "FeatureCollection"]}

RouteReplies ==
    BareReplies \cup {JsonReply(s, d) : s \in OkStatuses, d \in RouteBodies}

\* requests.JSONDecodeError is a RequestException from requests 2.27 on and a
\* plain ValueError before; the build decides which.
JsonErrorStatuses == {503, 500}

RouteIdle == [pc |-> "idle", start |-> "", end |-> "", calls |-> 0,
              status |-> 0, detail |-> "", body |-> <<>>,
              reply |-> [transport |-> "none", status |-> 0, json |-> FALSE,
                         data |-> NoData]]

\* a key check that forgets the placeholder default
KeyMissing_EmptyOnly(k) == k = ""

KeyMissing(k) == k = "" \/ k = Placeholder

RouteStart(s, e) ==
    /\ route.pc \in {"idle", "done"}
    /\ route' = IF KeyMissing(apiKey)
                THEN [RouteIdle EXCEPT !.pc = "done", !.start = s, !.end = e,
                          !.status = 500,
                          !.detail = "Geoapify API key not configured"]
                ELSE [RouteIdle EXCEPT !.pc = "calling", !.start = s, !.end = e,
                          !.calls = 1]
    /\ UNCHANGED <<storeVars, req, registered, budget, history, fuel, apiKey, weather>>

RouteOut(s, e, info) ==
    [start_location |-> s, end_location |-> e, waypoints |-> None,
     distance |-> Get(info, "distance", None),
     estimated_time |-> Get(info, "duration", None),
     traffic_conditions |-> Get(info, "traffic", None),
     route_type |-> "fastest"]

RouteResponse(r, reply, jsonErr) ==
    IF reply.transport # "ok" \/ RaiseForStatus(reply.status)
    THEN [status |-> 503, detail |-> "Error connecting to Geoapify", body |-> <<>>]
    ELSE IF ~ reply.json
    THEN [status |-> jsonErr,
          detail |-> IF jsonErr = 503 THEN "Error connecting to Geoapify"
                     ELSE "Internal Server Error",
          body |-> <<>>]
    ELSE LET features == Get(reply.data, "features", <<>>)
         IN  IF features = <<>>
             THEN [status |-> 404, detail |-> "No route found", body |-> <<>>]
             ELSE [status |-> 200, detail |-> "",
                   body |-> RouteOut(r.start, r.end,
                                     Get(features[1], "properties", NoData))]

RouteReply(reply, jsonErr) ==
    /\ route.pc = "calling"
    /\ LET a == RouteResponse(route, reply, jsonErr)
       IN  route' = [route EXCEPT !.pc = "done", !.status = a.status,
                         !.detail = a.detail, !.body = a.body, !.reply = reply]
    /\ UNCHANGED <<storeVars, req, registered, budget, history, fuel, apiKey, weather>>

(* ---------------------------- fetch_weather_alerts --------------------- *)
Tokens == {"Hurricane", "TORNADO", "Flood", "snow", "Winter", "Wildfire",
           "Fire"}

\* str.lower() on one word of the event text
LowerWord(w) ==
    CASE w = "Hurricane" -> "hurricane"
      [] w = "TORNADO" -> "tornado"
      [] w = "Flood" -> "flood"
      [] w = "Winter" -> "winter"
      [] w = "Wildfire" -> "wildfire"
      [] w = "Fire" -> "fire"
      [] w = "Storm" -> "storm"
      [] w = "Warning" -> "warning"
      [] OTHER -> w

Lower(text) == [i \in 1..Len(text) |-> LowerWord(text[i])]

\* the keywords that occur as substrings of a (lower-case) word
KeywordsIn(w) == IF w = "wildfire" THEN {"wildfire", "fire"} ELSE {w}

\* Python's  kw in event
In(kw, event) == \E i \in 1..Len(event) : kw \in KeywordsIn(event[i])

\* Event texts: every text of at most two vocabulary words, and the
\* three-word "Winter Storm Warning".
Events == {<<>>} \cup {<<a>> : a \in Tokens} \cup {<<a, b>> : a, b \in Tokens}
          \cup {<<"Winter", "Storm", "Warning">>}

\* An alert of the feed: with its event text, or without the "event" key.
Alerts == {[properties |-> [event |-> ev]] : ev \in Events}
          \cup {[properties |-> [headline |-> "no event"]]}

\* Weather()
NoWeather == [hurricane |-> FALSE, tornado |-> FALSE, snow |-> FALSE,
              flood |-> FALSE, wildfire |-> FALSE, earthquake |-> FALSE]

\* independent ifs in place of the elif chain
Classify_Independent(w, event) ==
    [w EXCEPT !.hurricane = @ \/ In("hurricane", event),
              !.tornado = @ \/ In("tornado", event),
              !.flood = @ \/ In("flood", event),
              !.snow = @ \/ In("snow", event) \/ In("winter", event),
              !.wildfire = @ \/ In("fire", event) \/ In("wildfire", event)]

\* The if/elif chain of the loop body on one (lower-cased) event text.
Classify(w, event) ==
    IF In("hurricane", event) THEN [w EXCEPT !.hurricane = TRUE]
    ELSE IF In("tornado", event) THEN [w EXCEPT !.tornado = TRUE]
    ELSE IF In("flood", event) THEN [w EXCEPT !.flood = TRUE]
    ELSE IF In("snow", event) \/ In("winter", event) THEN [w EXCEPT !.snow = TRUE]
    ELSE IF In("fire", event) \/ In("wildfire", event)
         THEN [w EXCEPT !.wildfire = TRUE]
    ELSE w

RECURSIVE AlertLoop(_, _, _)
\* for alert in features: ...; raised is TRUE when an alert has no event text
\* (KeyError), with the flags set so far.
AlertLoop(features, i, w) ==
    IF i > Len(features) THEN [raised |-> FALSE, weather |-> w]
    ELSE IF "event" \notin DOMAIN features[i].properties
         THEN [raised |-> TRUE, weather |-> w]
         ELSE AlertLoop(features, i + 1,
                        Classify(w, Lower(features[i].properties.event)))

\* the variant that logs the error and returns the flags it has
FetchWeatherAlerts_Swallow(reply) ==
    IF reply.transport # "ok" \/ RaiseForStatus(reply.status) \/ ~ reply.json
    THEN [status |-> 200, detail |-> "", body |-> <<NoWeather>>,
          partial |-> NoWeather]
    ELSE LET run == AlertLoop(Get(reply.data, "features", <<>>), 1, NoWeather)
         IN  [status |-> 200, detail |-> "",
              body |-> <<run.weather>>, partial |-> run.weather]

FetchWeatherAlerts(reply) ==
    IF reply.transport # "ok" \/ RaiseForStatus(reply.status) \/ ~ reply.json
    THEN [status |-> 503, detail |-> "Weather API error",
          body |-> <<>>, partial |-> NoWeather]
    ELSE LET run == AlertLoop(Get(reply.data, "features", <<>>), 1, NoWeather)
         IN  IF run.raised
             THEN [status |-> 503, detail |-> "Weather API error",
                   body |-> <<>>, partial |-> run.weather]
             ELSE [status |-> 200, detail |-> "",
                   body |-> <<run.weather>>, partial |-> run.weather]

WeatherIdle == [pc |-> "idle", status |-> 0, detail |-> "", body |-> <<>>,
                partial |-> NoWeather,
                reply |-> [transport |-> "none", status |-> 0, json |-> FALSE,
                           data |-> NoData]]

WeatherAnswer(reply) ==
    LET a == FetchWeatherAlerts(reply)
    IN  [pc |-> "done", status |-> a.status, detail |-> a.detail,
         body |-> a.body, partial |-> a.partial, reply |-> reply]

\* list_weather, for every reply the feed can give: no feed, a JSON object
\* without "features", or a feed of up to MaxAlerts alerts.
ListWeather ==
    /\ weather.pc = "idle"
    /\ \/ \E reply \in BareReplies : weather' = WeatherAnswer(reply)
       \/ \E s \in OkStatuses :
              weather' = WeatherAnswer(JsonReply(s, [title |-> "no features"]))
       \/ \E s \in OkStatuses, k \in 0..MaxAlerts :
              \E f \in [1..k -> Alerts] :
                 weather' = WeatherAnswer(JsonReply(s, [features |-> f]))
    /\ UNCHANGED <<storeVars, req, registered, budget, history, fuel, apiKey, route>>

\* The response is sent; the next request starts from a fresh Weather().
WeatherReturn ==
    /\ weather.pc = "done"
    /\ weather' = WeatherIdle
    /\ UNCHANGED <<storeVars, req, registered, budget, history, fuel, apiKey, route>>

(* ---------------------------- specifications --------------------------- *)
\* The workers start idle; the tables are what the database file holds.
InitWorkers(n) ==
    /\ writer = 0
    /\ req = [p \in Procs |-> Idle]
    /\ history = <<>>
    /\ budget = n

InitStore(n) ==
    /\ users = {} /\ companies = {} /\ packages = {}
    /\ registered = {}
    /\ InitWorkers(n)

InitExt ==
    /\ fuel = NoFuel
    /\ apiKey = Placeholder
    /\ route = RouteIdle
    /\ weather = WeatherIdle

\* Concurrent writers on all three tables.
Init == InitStore(MaxRequests) /\ InitExt

Next ==
    \E p \in Procs :
        \/ \E u \in Usernames, e \in Emails, pw \in Passwords :
               CreateUserCheck(p, u, e, pw)
        \/ \E s \in Salts : CreateUserAdd(p, s)
        \/ CreateUserCommit(p)
        \/ \E n \in CompanyNames, e \in Emails : CreateCompanyCheck(p, n, e)
        \/ CreateCompanyAdd(p)
        \/ CreateCompanyCommit(p)
        \/ \E n \in PkgNames : AddPackage(p, n)
        \/ \E id \in PkgIds : RemovePackageDelete(p, id)
        \/ RemovePackageCommit(p)
        \/ Return(p)

Spec == Init /\ [][Next]_vars

\* The account service: registrations and logins.
\* The database file is empty, or holds alice from an earlier run.
InitAccounts ==
    /\ \/ users = {} /\ registered = {}
       \/ /\ users = InsertUser({}, "alice", "a@x.io", Hash("pw1", "s2"))
          /\ registered = {<<"alice", "pw1", 1>>}
    /\ companies = {} /\ packages = {}
    /\ InitWorkers(MaxAccountRequests)
    /\ InitExt

NextAccounts ==
    \E p \in Procs :
        \/ \E u \in Usernames, e \in Emails, pw \in Passwords :
               CreateUserCheck(p, u, e, pw)
        \/ \E s \in Salts : CreateUserAdd(p, s)
        \/ CreateUserCommit(p)
        \/ \E u \in Usernames, pw \in Passwords : Login(p, u, pw)
        \/ Return(p)

SpecAccounts == InitAccounts /\ [][NextAccounts]_vars

\* The package service.
\* The database file holds one package from an earlier run; the empty table
\* is one remove_package away.
InitPkg ==
    /\ packages = {[id |-> 1, package_name |-> "box"]}
    /\ users = {} /\ companies = {} /\ registered = {}
    /\ InitWorkers(MaxPkgRequests)
    /\ InitExt

NextPkg ==
    \E p \in Procs :
        \/ \E n \in PkgNames : AddPackage(p, n)
        \/ ListPackages(p)
        \/ \E id \in PkgIds : RemovePackageDelete(p, id)
        \/ RemovePackageCommit(p)
        \/ Return(p)

SpecPkg == InitPkg /\ [][NextPkg]_vars

\* The fuel scheduler.
InitFuel == InitStore(0) /\ InitExt

NextFuel == (\E t \in Timestamps : Fuel(t)) \/ FuelMalformed

SpecFuel == InitFuel /\ [][NextFuel]_vars

\* Route lookup, for every configuration of the API key.
InitRoute ==
    /\ InitStore(0)
    /\ fuel = NoFuel /\ route = RouteIdle /\ weather = WeatherIdle
    /\ apiKey \in ApiKeys

NextRoute ==
    \/ \E s \in Locations, e \in Locations : RouteStart(s, e)
    \/ \E r \in RouteReplies, j \in JsonErrorStatuses : RouteReply(r, j)

SpecRoute == InitRoute /\ [][NextRoute]_vars

\* The weather alert classifier.
InitWeather == InitStore(0) /\ InitExt

NextWeather == ListWeather \/ WeatherReturn

SpecWeather == InitWeather /\ [][NextWeather]_vars

(* ---------------------------- properties ------------------------------- *)
Succeeded(p, op) == req[p].pc = "done" /\ req[p].op = op /\ req[p].status = 200

\* C1: under every interleaving of create_user, create_company, add_package
\* and remove_package requests, no two users share an id, a username or an
\* email, no two companies share an id, a name or an email, no two packages
\* share an id, and two requests in flight together for the same username or
\* the same email never both succeed.
C1_UniqueUnderConcurrency ==
    /\ \A a, b \in users :
          (a.id = b.id \/ a.username = b.username \/ a.email = b.email) => a = b
    /\ \A a, b \in companies :
          (a.id = b.id \/ a.name = b.name \/ a.email = b.email) => a = b
    /\ \A a, b \in packages : a.id = b.id => a = b
    /\ \A p, q \in Procs :
          (p # q /\ Succeeded(p, "create_user") /\ Succeeded(q, "create_user"))
          => (req[p].arg[1] # req[q].arg[1] /\ req[p].arg[2] # req[q].arg[2])
    /\ \A p, q \in Procs :
          (p # q /\ Succeeded(p, "create_company")
                 /\ Succeeded(q, "create_company"))
          => (req[p].arg[1] # req[q].arg[1] /\ req[p].arg[2] # req[q].arg[2])

\* Two registrations of one username raced past the existence check: one
\* succeeded, the other was refused by the unique index.
C1_RaceLost ==
    \E p, q \in Procs :
        /\ Succeeded(p, "create_user")
        /\ req[q].pc = "done" /\ req[q].op = "create_user" /\ req[q].status = 500
        /\ req[p].arg[1] = req[q].arg[1]
        /\ req[p].arg[2] # req[q].arg[2]

\* C2: a create_user request that finds a stored user with its username or
\* with its email ends at once with the 400 "already registered" error and
\* leaves the users table unchanged.
C2_DuplicateRejected ==
    [][\A p \in Procs :
          (/\ req[p].pc = "idle"
           /\ req'[p].op = "create_user"
           /\ \E r \in users : \/ r.username = req'[p].arg[1]
                               \/ r.email = req'[p].arg[2])
          => (/\ req'[p].pc = "done"
              /\ req'[p].status = 400
              /\ req'[p].detail = "Username or email already registered"
              /\ users' = users)]_vars

\* A registration was rejected although only its email was taken.
C2_EmailOnlyRejected ==
    \E p \in Procs :
        /\ req[p].pc = "done" /\ req[p].op = "create_user" /\ req[p].status = 400
        /\ \E r \in users : r.email = req[p].arg[2]
        /\ ~ \E r \in users : r.username = req[p].arg[1]

Listed(out) == {out[i] : i \in 1..Len(out)}
Count(out, id) == Cardinality({i \in 1..Len(out) : out[i].id = id})

\* C5: when a list_packages is the next operation after an add_package, the
\* list holds the new record (fresh id, exactly once) and exactly the records
\* that were there before, unchanged; a remove_package of that id next
\* succeeds, and a list_packages after it holds the earlier records and no
\* record with that id.
C5_AddListRemoveList ==
    \A i \in 1..Len(history) :
        (/\ history[i].op = "add_package"
         /\ i < Len(history)
         /\ history[i + 1].op = "list_packages")
        => LET a == history[i]
               l == history[i + 1]
               rec == a.out[1]
           IN  /\ rec.id \notin {r.id : r \in a.pre}
               /\ Count(l.out, rec.id) = 1
               /\ Listed(l.out) = a.pre \cup {rec}
               /\ Len(l.out) = Cardinality(a.pre) + 1
               /\ (/\ i + 2 <= Len(history)
                   /\ history[i + 2].op = "remove_package"
                   /\ history[i + 2].id = rec.id)
                  => /\ history[i + 2].status = 200
                     /\ (/\ i + 3 <= Len(history)
                         /\ history[i + 3].op = "list_packages")
                        => /\ Count(history[i + 3].out, rec.id) = 0
                           /\ Listed(history[i + 3].out) = a.pre

\* add, list, remove of the added id, list: run back to back on a table that
\* already held a package.
C5_FullRoundTrip ==
    \E i \in 1..Len(history) :
        /\ i + 3 <= Len(history)
        /\ history[i].op = "add_package" /\ history[i].pre # {}
        /\ history[i + 1].op = "list_packages"
        /\ history[i + 2].op = "remove_package"
        /\ history[i + 2].id = history[i].id
        /\ history[i + 3].op = "list_packages"
        /\ Len(history[i + 3].out) = 1

\* C6: remove_package answers 200 exactly when one row with that id was
\* removed (and no other row), and answers 404 and leaves the table as it was
\* when no row has that id; the worker's response is the recorded outcome.
C6_RemoveOutcome ==
    /\ \A i \in 1..Len(history) :
          history[i].op = "remove_package"
          => LET h == history[i]
                 hit == {r \in h.pre : r.id = h.id}
             IN  /\ h.status \in {200, 404}
                 /\ h.status = 200 <=> (Cardinality(hit) = 1
                                        /\ h.post = h.pre \ hit
                                        /\ Cardinality(h.post) = Cardinality(h.pre) - 1)
                 /\ hit = {} => (h.status = 404 /\ h.post = h.pre)
    /\ history # <<>> => history[Len(history)].post = packages
    /\ \A p \in Procs :
          (req[p].pc = "done" /\ req[p].op = "remove_package")
          => /\ req[p].status \in {200, 404}
             /\ req[p].status = 404 => req[p].detail = "Package not found"

\* The same id was removed twice in a row: 200, then 404.
C6_SecondRemoveNotFound ==
    \E i \in 1..Len(history) :
        /\ i < Len(history)
        /\ history[i].op = "remove_package" /\ history[i].status = 200
        /\ history[i + 1].op = "remove_package" /\ history[i + 1].status = 404
        /\ history[i + 1].id = history[i].id

\* C7: for every valid timestamp T the fuel operation answers with
\* current_time = T, next_refuel_time = T + 30 hours and
\* hours_until_refuel = 30.
C7_RefuelAfter30Hours ==
    (fuel.valid /\ fuel.status # 0)
    => /\ fuel.status = 200
       /\ fuel.body = <<fuel.input, fuel.input + 30, 30>>

Is2xx(s) == 200 <= s /\ s < 300

FirstCandidateRoute(r) ==
    LET first == r.reply.data.features[1]
        has(k) == "properties" \in DOMAIN first /\ k \in DOMAIN first.properties
    IN  [start_location |-> r.start, end_location |-> r.end,
         waypoints |-> None,
         distance |-> IF has("distance") THEN first.properties.distance ELSE None,
         estimated_time |-> IF has("duration") THEN first.properties.duration
                            ELSE None,
         traffic_conditions |-> IF has("traffic") THEN first.properties.traffic
                                ELSE None,
         route_type |-> "fastest"]

NoCandidates(reply) ==
    "features" \notin DOMAIN reply.data \/ Len(reply.data.features) = 0

\* A response that is no error response and whose body is not JSON: the
\* claim names no outcome for it.
Unparseable(reply) ==
    reply.transport = "ok" /\ reply.status < 400 /\ ~ reply.json

\* The decision order of get_route, given whether the reply counts as failed.
RouteDecision(failed) ==
    /\ route.pc = "calling"
       => (apiKey \notin {"", "your_api_key_here"} /\ route.calls = 1)
    /\ route.pc = "done"
       => IF apiKey \in {"", "your_api_key_here"}
          THEN /\ route.status = 500
               /\ route.detail = "Geoapify API key not configured"
               /\ route.calls = 0
          ELSE /\ route.calls = 1
               /\ IF Unparseable(route.reply)
                  THEN route.status \in {503, 500} /\ route.body = <<>>
                  ELSE IF failed
                  THEN route.status = 503 /\ route.body = <<>>
                  ELSE IF NoCandidates(route.reply)
                  THEN route.status = 404 /\ route.body = <<>>
                  ELSE /\ route.status = 200
                       /\ route.body = FirstCandidateRoute(route)

FailedNon2xx(reply) == reply.transport # "ok" \/ ~ Is2xx(reply.status)
FailedErrorStatus(reply) == reply.transport # "ok" \/ reply.status >= 400

GroupOrder == <<"hurricane", "tornado", "flood", "snow", "wildfire">>

GroupKeywords(g) ==
    CASE g = "hurricane" -> {"hurricane"}
      [] g = "tornado" -> {"tornado"}
      [] g = "flood" -> {"flood"}
      [] g = "snow" -> {"snow", "winter"}
      [] g = "wildfire" -> {"fire", "wildfire"}

\* The first keyword group, in the fixed order, that the event text matches.
FirstGroup(event) ==
    LET hits == {k \in 1..Len(GroupOrder) :
                    \E kw \in GroupKeywords(GroupOrder[k]) : In(kw, Lower(event))}
    IN  IF hits = {} THEN "none"
        ELSE GroupOrder[CHOOSE k \in hits : \A j \in hits : k <= j]

\* FirstGroup, tabulated over the event texts of the model.
GroupOf == [ev \in Events |-> FirstGroup(ev)]

WinterStormWarning == [properties |-> [event |-> <<"Winter", "Storm", "Warning">>]]

\* C9: the flags fetch_weather_alerts returns are, flag by flag, the OR over
\* the feed's alerts of "this flag's group is the first group the alert
\* matches"; earthquake is always false, an empty feed gives six false flags
\* and a lone "Winter Storm Warning" gives snow alone.
C9_FlagsAreOrOfFirstMatch ==
    (weather.pc = "done" /\ weather.status = 200)
    => LET feed == IF "features" \in DOMAIN weather.reply.data
                   THEN weather.reply.data.features ELSE <<>>
           w == weather.body[1]
           groups == {GroupOf[feed[i].properties.event] : i \in 1..Len(feed)}
       IN  /\ w.hurricane = ("hurricane" \in groups)
           /\ w.tornado = ("tornado" \in groups)
           /\ w.flood = ("flood" \in groups)
           /\ w.snow = ("snow" \in groups)
           /\ w.wildfire = ("wildfire" \in groups)
           /\ w.earthquake = FALSE
           /\ feed = <<>> => w = [hurricane |-> FALSE, tornado |-> FALSE,
                                  snow |-> FALSE, flood |-> FALSE,
                                  wildfire |-> FALSE, earthquake |-> FALSE]
           /\ feed = <<WinterStormWarning>>
              => w = [hurricane |-> FALSE, tornado |-> FALSE, snow |-> TRUE,
                      flood |-> FALSE, wildfire |-> FALSE, earthquake |-> FALSE]

\* A single alert naming both a flood and a fire set the flood flag only.
C9_FloodBeforeFire ==
    /\ weather.pc = "done" /\ weather.status = 200
    /\ "features" \in DOMAIN weather.reply.data
    /\ weather.reply.data.features = <<[properties |-> [event |-> <<"Fire", "Flood">>]]>>
    /\ weather.body[1].flood /\ ~ weather.body[1].wildfire

SomeAlertWithoutEvent(reply) ==
    /\ reply.json /\ "features" \in DOMAIN reply.data
    /\ \E i \in 1..Len(reply.data.features) :
          "event" \notin DOMAIN reply.data.features[i].properties

\* The failure rule of fetch_weather_alerts, given which replies count as
\* failed calls.
WeatherFailure(failed) ==
    weather.pc = "done"
    => /\ failed => (weather.status = 503 /\ weather.body = <<>>)
       /\ SomeAlertWithoutEvent(weather.reply)
          => (weather.status = 503 /\ weather.body = <<>>)
       /\ weather.status \in {200, 503}

\* C10 as claimed: a timeout, a connection error or a non-2xx status ends
\* with 503 and no WeatherAlertState, and so does a failure on a later alert
\* after earlier ones were classified.
C10_FailureIs503Non2xx == WeatherFailure(FailedNon2xx(weather.reply))

\* C10 amended: the same, with a 4xx/5xx status in place of a non-2xx status.
C10_FailureIs503 == WeatherFailure(FailedErrorStatus(weather.reply))

\* The feed broke on its second alert after the first had set a flag; the
\* answer is 503 and carries no flags.
C10_PartialFeedDiscarded ==
    /\ weather.pc = "done" /\ weather.status = 503
    /\ weather.reply.json
    /\ weather.partial # NoWeather
    /\ weather.body = <<>>
====
